---- MODULE Spec2Model ----
(***************************************************************************)
(* Model of the OpenFur data collector (collector.js) and of the           *)
(* FurAffinity client it drives (lib/furaffinity.js): the range lookup     *)
(* (findLatestPost, findPostByDate), the sampling loop of main and         *)
(* fetchPostMeta.                                                          *)
(*                                                                         *)
(* The remote site is the variable pages: pages[id] is what /view/<id>     *)
(* serves.  Every await of the program is one step of the model.  Dates    *)
(* are minutes on a calendar reduced to one day per year, so that the      *)
(* collected year runs from 12:00 AM to 11:59 PM of "its" day.             *)
(***************************************************************************)
EXTENDS Integers, Sequences, FiniteSets, Bags, TLC

VARIABLES
  pages,           \* the site: pages[id] is the page served for /view/<id>
  configCol,       \* db.collection('config'): set of range records
  submissionsCol,  \* db.collection('submissions'): bag of documents
  pc,              \* position of main()
  thrown,          \* message of the error that rejected main(), or "none"
  latestId,        \* FurAffinity.latestId
  targetDate,      \* findPostByDate: argument targetDate
  first,           \* findPostByDate: argument first
  min,             \* findPostByDate: local min
  max,             \* findPostByDate: local max
  mid,             \* findPostByDate: local mid
  notFounds,       \* findPostByDate: local notFounds
  walk_i,          \* findPostByDate: loop variable i of the range walk
  ret,             \* findPostByDate: returned value
  firstPost,       \* lookupRanges: local firstPost
  lastPost,        \* lookupRanges: local lastPost
  ranges,          \* main: local ranges
  targetEntries,   \* main: local targetEntries
  currentEntries,  \* main: local currentEntries
  i,               \* main: loop variable i of the sampling loop
  randomId,        \* main: local randomId
  postMeta,        \* main: local postMeta
  failures,        \* number of requests of fetchPostMeta that failed
  inserts,         \* number of submissionsCol.insertOne calls of this run
  limiter          \* furaffinity.js:10, the Bottleneck shared by every request

vars == <<pages, configCol, submissionsCol, pc, thrown, latestId, targetDate,
          first, min, max, mid, notFounds, walk_i, ret, firstPost, lastPost,
          ranges, targetEntries, currentEntries, i, randomId, postMeta,
          failures, inserts, limiter>>

resolverVars == <<targetDate, first, min, max, mid, notFounds, walk_i, ret>>
samplerVars ==
  <<targetEntries, currentEntries, i, randomId, postMeta, failures, inserts>>

(***************************************************************************)
(* Bounds of the model.                                                    *)
(***************************************************************************)
\* largest identifier space the range lookup is run on
MaxId == 5
\* largest number of failed requests during one sampling run
MaxFailures == 3
\* largest width lastPost - firstPost of a stored range the sampler is run on
MaxWidth == 20
\* number of callers that use the client at the same time
NumCallers == 3
\* largest latestId of a site whose dates are in any order
MaxAnyId == 5

(***************************************************************************)
(* Dates.                                                                  *)
(***************************************************************************)
\* collector.js:34, the year that is collected
year == 2018

\* the value convertDateStr returns for a string it cannot parse (null)
NullDate == -1

\* Date.UTC(year, month, day, hour, minute) on the reduced calendar
DateUTC(y, hour, minute) == ((y * 24) + hour) * 60 + minute

\* A date title "<Mon> <d>th, <y> <h>:<m> <AM|PM>" is the tuple <<y, h, m, ap>>;
\* a string the regular expression rejects is a tuple of another shape, and
\* a missing title attribute (undefined) is the empty tuple.
convertDateStr(value) ==
  IF Len(value) # 4 \/ value[4] \notin {"AM", "PM"}
    THEN NullDate
    ELSE LET hour == (value[2] % 12) + (IF value[4] = "PM" THEN 12 ELSE 0)
         IN  DateUTC(value[1], hour, value[3])

\* new Date(year + '-01-01T00:00:00Z') and new Date(year + '-12-31T23:59:00Z')
periodStart == DateUTC(year, 0, 0)
periodEnd == DateUTC(year, 23, 59)

(***************************************************************************)
(* Pages of the site.                                                      *)
(***************************************************************************)
RawDates == { <<year - 1, 11, 59, "PM">>, <<year, 12, 0, "AM">>,
              <<year, 12, 0, "PM">>, <<year, 11, 59, "PM">>,
              <<year + 1, 12, 0, "AM">> }

\* no #page-submission element: nothing at this id
GapPage == [submission |-> FALSE, rawDate |-> <<>>]
\* a submission page without the .popup_date title
NoDatePage == [submission |-> TRUE, rawDate |-> <<>>]
\* a submission page whose date is written in a 24 hour format
BadDatePage == [submission |-> TRUE, rawDate |-> <<year, 13, 0>>]
PostPages == { [submission |-> TRUE, rawDate |-> r] : r \in RawDates }

IsPost(p) == p.submission /\ convertDateStr(p.rawDate) # NullDate

\* identifiers of a site that carry a submission with a readable date
Posts(w) == { id \in 1..Len(w) : IsPost(w[id]) }
DateAt(w, id) == convertDateStr(w[id].rawDate)

\* timestamps are non-decreasing in the identifier
Monotone(w) ==
  \A a, b \in Posts(w) : a < b => DateAt(w, a) <= DateAt(w, b)

(***************************************************************************)
(* Sites the range lookup is run on: every identifier space 1..n with      *)
(* n <= MaxId, every set of gaps, every page without a date title and      *)
(* every assignment of dates that is non-decreasing in the identifier.     *)
(***************************************************************************)
ResolverPages == {GapPage, NoDatePage} \cup PostPages

ResolverWorlds ==
  UNION { { w \in [1..n -> ResolverPages] : Monotone(w) } : n \in 1..MaxId }

PageAt(id) == IF id \in DOMAIN pages THEN pages[id] ELSE GapPage

\* the value of main's ranges before configCol.findOne resolves, and null
NoRanges == [year |-> 0, firstPost |-> 0, lastPost |-> 0]
\* the value of main's postMeta outside an iteration, and null
NoMeta == [id |-> 0, date |-> NullDate]

(***************************************************************************)
(* main, up to the range record (collector.js:24-42).                      *)
(***************************************************************************)
\* an error rejects main(): nothing after the throwing await runs
Throw(msg) ==
  /\ pc' = "aborted"
  /\ thrown' = msg

\* collector.js:37-38, a range record of the year is in the database
MainFound ==
  /\ pc = "start"
  /\ \E r \in configCol : r.year = year
  /\ ranges' = CHOOSE r \in configCol : r.year = year
  /\ pc' = "count"
  /\ UNCHANGED <<limiter, pages, configCol, submissionsCol, thrown, latestId,
                 firstPost, lastPost, resolverVars, samplerVars>>

\* a run that looks the range up whether or not a record is stored
MainNotFoundUnchecked ==
  /\ pc = "start"
  /\ pc' = "findLatestPost"
  /\ UNCHANGED <<limiter, pages, configCol, submissionsCol, thrown, latestId, ranges,
                 firstPost, lastPost, resolverVars, samplerVars>>

\* collector.js:37-40, no range record: lookupRanges is called
MainNotFound ==
  /\ pc = "start"
  /\ ~ \E r \in configCol : r.year = year
  /\ pc' = "findLatestPost"
  /\ UNCHANGED <<limiter, pages, configCol, submissionsCol, thrown, latestId, ranges,
                 firstPost, lastPost, resolverVars, samplerVars>>

\* Math.floor(((max - min) / 2) + min)
Midpoint(lo, hi) == ((hi - lo) \div 2) + lo

\* lines 65-69: the error thrown for a submission page without a readable date
FormatError(p) ==
  IF p.rawDate = <<>> THEN "Unknown view page format" ELSE "Unknown date format"

\* findPostByDate, lines 37-40: the locals before the first iteration
StartSearch(target, isFirst, latest) ==
  /\ targetDate' = target
  /\ first' = isFirst
  /\ min' = 1
  /\ max' = latest
  /\ mid' = Midpoint(1, latest)
  /\ notFounds' = FALSE
  /\ walk_i' = 0
  /\ ret' = 0
  /\ pc' = "search"

\* findLatestPost resolves; lookupRanges calls findPostByDate(Jan 1st, true)
FindLatestPost ==
  /\ pc = "findLatestPost"
  /\ latestId' = Len(pages)
  /\ StartSearch(periodStart, TRUE, Len(pages))
  /\ UNCHANGED <<limiter, pages, configCol, submissionsCol, thrown, ranges, firstPost,
                 lastPost, samplerVars>>

\* the request of the front page fails, or no figure is found on it
FindLatestPostFails ==
  /\ pc = "findLatestPost"
  /\ \E msg \in {"Request failed", "Unknown homepage format"} : Throw(msg)
  /\ UNCHANGED <<limiter, pages, configCol, submissionsCol, latestId, ranges,
                 firstPost, lastPost, resolverVars, samplerVars>>

(***************************************************************************)
(* findPostByDate: the binary search (furaffinity.js:45-83).               *)
(***************************************************************************)
\* line 48: mid meets an end of the bracket
AtBracketEnd == mid = min \/ mid = max

\* line 48: the loop is left
SearchExit ==
  /\ pc = "search"
  /\ AtBracketEnd
  /\ pc' = "walk"
  /\ walk_i' = IF first THEN min ELSE max
  /\ UNCHANGED <<limiter, pages, configCol, submissionsCol, thrown, latestId,
                 targetDate, first, min, max, mid, notFounds, ret, firstPost,
                 lastPost, ranges, samplerVars>>

\* line 50: the request of /view/<mid> fails
SearchRequestFails ==
  /\ pc = "search"
  /\ ~ AtBracketEnd
  /\ Throw("Request failed")
  /\ UNCHANGED <<limiter, pages, configCol, submissionsCol, latestId, ranges,
                 firstPost, lastPost, resolverVars, samplerVars>>

\* a gap handling that takes the gap for a late submission: max = mid
SearchGapNarrows ==
  /\ pc = "search"
  /\ ~ AtBracketEnd
  /\ ~ PageAt(mid).submission
  /\ max' = mid
  /\ IF ~ notFounds
       THEN mid' = max - 1 /\ notFounds' = TRUE
       ELSE mid' = mid - 1 /\ notFounds' = notFounds
  /\ UNCHANGED <<limiter, pages, configCol, submissionsCol, pc, thrown, latestId,
                 targetDate, first, min, walk_i, ret, firstPost,
                 lastPost, ranges, samplerVars>>

\* a gap handling that jumps to max - 1 at every gap of a run
SearchGapAlwaysJumps ==
  /\ pc = "search"
  /\ ~ AtBracketEnd
  /\ ~ PageAt(mid).submission
  /\ mid' = max - 1
  /\ notFounds' = TRUE
  /\ UNCHANGED <<limiter, pages, configCol, submissionsCol, pc, thrown, latestId,
                 targetDate, first, min, max, walk_i, ret, firstPost,
                 lastPost, ranges, samplerVars>>

\* lines 53-60: nothing at mid
SearchGap ==
  /\ pc = "search"
  /\ ~ AtBracketEnd
  /\ ~ PageAt(mid).submission
  /\ IF ~ notFounds
       THEN mid' = max - 1 /\ notFounds' = TRUE
       ELSE mid' = mid - 1 /\ notFounds' = notFounds
  /\ UNCHANGED <<limiter, pages, configCol, submissionsCol, pc, thrown, latestId,
                 targetDate, first, min, max, walk_i, ret, firstPost,
                 lastPost, ranges, samplerVars>>

\* lines 65-69: a submission page whose date cannot be read
SearchFormat ==
  /\ pc = "search"
  /\ ~ AtBracketEnd
  /\ PageAt(mid).submission
  /\ ~ IsPost(PageAt(mid))
  /\ Throw(FormatError(PageAt(mid)))
  /\ notFounds' = FALSE
  /\ UNCHANGED <<limiter, pages, configCol, submissionsCol, latestId, targetDate,
                 first, min, max, mid, walk_i, ret, firstPost, lastPost,
                 ranges, samplerVars>>

\* a search that takes the submission it hit for the boundary: the walk is
\* over mid alone
SearchCompareStopsAtHit ==
  /\ pc = "search"
  /\ ~ AtBracketEnd
  /\ IsPost(PageAt(mid))
  /\ notFounds' = FALSE
  /\ LET date == convertDateStr(PageAt(mid).rawDate)
     IN  IF date > targetDate
           THEN /\ max' = mid
                /\ min' = min
                /\ mid' = Midpoint(min, mid)
                /\ UNCHANGED <<pc, walk_i>>
           ELSE IF date < targetDate
             THEN /\ min' = mid
                  /\ max' = max
                  /\ mid' = Midpoint(mid, max)
                  /\ UNCHANGED <<pc, walk_i>>
             ELSE /\ pc' = "walk"
                  /\ walk_i' = mid
                  /\ min' = mid
                  /\ max' = mid
                  /\ mid' = mid
  /\ UNCHANGED <<limiter, pages, configCol, submissionsCol, thrown, latestId,
                 targetDate, first, ret, firstPost, lastPost, ranges,
                 samplerVars>>

\* lines 61-82: a submission at mid, compared with the target
SearchCompare ==
  /\ pc = "search"
  /\ ~ AtBracketEnd
  /\ IsPost(PageAt(mid))
  /\ notFounds' = FALSE
  /\ LET date == convertDateStr(PageAt(mid).rawDate)
     IN  IF date > targetDate
           THEN /\ max' = mid
                /\ min' = min
                /\ mid' = Midpoint(min, mid)
                /\ UNCHANGED <<pc, walk_i>>
           ELSE IF date < targetDate
             THEN /\ min' = mid
                  /\ max' = max
                  /\ mid' = Midpoint(mid, max)
                  /\ UNCHANGED <<pc, walk_i>>
             ELSE /\ pc' = "walk"
                  /\ walk_i' = IF first THEN min ELSE max
                  /\ UNCHANGED <<min, max, mid>>
  /\ UNCHANGED <<limiter, pages, configCol, submissionsCol, thrown, latestId,
                 targetDate, first, ret, firstPost, lastPost, ranges,
                 samplerVars>>

(***************************************************************************)
(* findPostByDate: the range walk (furaffinity.js:88-121).                 *)
(***************************************************************************)
\* a walk that stops one identifier short of the far end of the bracket
InWalkExclusive == IF first THEN walk_i < max ELSE walk_i > min

\* lines 89 and 104: the condition of the walk
InWalk == IF first THEN walk_i <= max ELSE walk_i >= min
WalkStep == IF first THEN walk_i + 1 ELSE walk_i - 1

\* lines 90 and 105: the request of /view/<i> fails
WalkRequestFails ==
  /\ pc = "walk"
  /\ InWalk
  /\ Throw("Request failed")
  /\ UNCHANGED <<limiter, pages, configCol, submissionsCol, latestId, ranges,
                 firstPost, lastPost, resolverVars, samplerVars>>

\* lines 91 and 106: nothing at i
WalkGap ==
  /\ pc = "walk"
  /\ InWalk
  /\ ~ PageAt(walk_i).submission
  /\ walk_i' = WalkStep
  /\ UNCHANGED <<limiter, pages, configCol, submissionsCol, pc, thrown, latestId,
                 targetDate, first, min, max, mid, notFounds, ret, firstPost,
                 lastPost, ranges, samplerVars>>

\* lines 93-97 and 108-112: a submission page whose date cannot be read
WalkFormat ==
  /\ pc = "walk"
  /\ InWalk
  /\ PageAt(walk_i).submission
  /\ ~ IsPost(PageAt(walk_i))
  /\ Throw(FormatError(PageAt(walk_i)))
  /\ UNCHANGED <<limiter, pages, configCol, submissionsCol, latestId, ranges,
                 firstPost, lastPost, resolverVars, samplerVars>>

\* lines 101 and 116: a submission at i, returned if it is on the target
WalkCompare ==
  /\ pc = "walk"
  /\ InWalk
  /\ IsPost(PageAt(walk_i))
  /\ IF convertDateStr(PageAt(walk_i).rawDate) = targetDate
       THEN ret' = walk_i /\ pc' = "returned" /\ walk_i' = walk_i
       ELSE walk_i' = WalkStep /\ UNCHANGED <<ret, pc>>
  /\ UNCHANGED <<limiter, pages, configCol, submissionsCol, thrown, latestId,
                 targetDate, first, min, max, mid, notFounds, firstPost,
                 lastPost, ranges, samplerVars>>

\* a fallback that returns the loop variable of the walk instead of mid
WalkFallbackReturnsI ==
  /\ pc = "walk"
  /\ ~ InWalk
  /\ ret' = walk_i
  /\ pc' = "returned"
  /\ UNCHANGED <<limiter, pages, configCol, submissionsCol, thrown, latestId,
                 targetDate, first, min, max, mid, notFounds, walk_i,
                 firstPost, lastPost, ranges, samplerVars>>

\* lines 120-121: the walk ends without a match, mid is returned
WalkFallback ==
  /\ pc = "walk"
  /\ ~ InWalk
  /\ ret' = mid
  /\ pc' = "returned"
  /\ UNCHANGED <<limiter, pages, configCol, submissionsCol, thrown, latestId,
                 targetDate, first, min, max, mid, notFounds, walk_i,
                 firstPost, lastPost, ranges, samplerVars>>

(***************************************************************************)
(* lookupRanges after each findPostByDate (collector.js:77-84, 40-41).     *)
(***************************************************************************)
\* a lookup that stores the first boundary as soon as it is resolved
FirstPostFoundStored ==
  /\ pc = "returned"
  /\ first
  /\ firstPost' = ret
  /\ configCol' =
       configCol \cup {[year |-> year, firstPost |-> ret, lastPost |-> 0]}
  /\ StartSearch(periodEnd, FALSE, latestId)
  /\ UNCHANGED <<limiter, pages, submissionsCol, thrown, latestId, lastPost, ranges,
                 samplerVars>>

\* line 77 resolves; line 81 calls findPostByDate(Dec 31st 23:59, false)
FirstPostFound ==
  /\ pc = "returned"
  /\ first
  /\ firstPost' = ret
  /\ StartSearch(periodEnd, FALSE, latestId)
  /\ UNCHANGED <<limiter, pages, configCol, submissionsCol, thrown, latestId, lastPost,
                 ranges, samplerVars>>

\* line 81 resolves; line 84 returns {firstPost, lastPost} to main
LastPostFound ==
  /\ pc = "returned"
  /\ ~ first
  /\ lastPost' = ret
  /\ ranges' = [year |-> year, firstPost |-> firstPost, lastPost |-> ret]
  /\ pc' = "insertRanges"
  /\ UNCHANGED <<limiter, pages, configCol, submissionsCol, thrown, latestId,
                 firstPost, resolverVars, samplerVars>>

\* collector.js:41
InsertRanges ==
  /\ pc = "insertRanges"
  /\ configCol' = configCol \cup {ranges}
  /\ pc' = "count"
  /\ UNCHANGED <<limiter, pages, submissionsCol, thrown, latestId, firstPost, lastPost,
                 ranges, resolverVars, samplerVars>>

(***************************************************************************)
(* main: the sampling loop (collector.js:44-66) and fetchPostMeta.         *)
(***************************************************************************)
RECURSIVE SumCopies(_, _)
SumCopies(col, docs) ==
  IF docs = {} THEN 0
  ELSE LET d == CHOOSE x \in docs : TRUE
       IN  CopiesIn(d, col) + SumCopies(col, docs \ {d})

\* the query of collector.js:45-50
InPeriod(d) == d.date >= periodStart /\ d.date <= periodEnd

\* submissionsCol.countDocuments({date: {$gte: ..., $lte: ...}})
countInPeriod(col) == SumCopies(col, { d \in BagToSet(col) : InPeriod(d) })

\* submissionsCol.countDocuments({id: id})
countById(col, id) == SumCopies(col, { d \in BagToSet(col) : d.id = id })

\* a loop that starts at 0 instead of the number of stored entries
CountFromZero ==
  /\ pc = "count"
  /\ targetEntries' = (ranges.lastPost - ranges.firstPost) \div 10
  /\ currentEntries' = countInPeriod(submissionsCol)
  /\ i' = 0
  /\ pc' = "loop"
  /\ UNCHANGED <<limiter, pages, configCol, submissionsCol, thrown, latestId,
                 firstPost, lastPost, ranges, resolverVars, randomId,
                 postMeta, failures, inserts>>

\* collector.js:44-52
Count ==
  /\ pc = "count"
  /\ targetEntries' = (ranges.lastPost - ranges.firstPost) \div 10
  /\ currentEntries' = countInPeriod(submissionsCol)
  /\ i' = currentEntries'
  /\ pc' = "loop"
  /\ UNCHANGED <<limiter, pages, configCol, submissionsCol, thrown, latestId,
                 firstPost, lastPost, ranges, resolverVars, randomId,
                 postMeta, failures, inserts>>

\* a loop that runs once more when the target is met
LoopCondInclusive == i <= targetEntries

\* line 54: the condition of the sampling loop
LoopCond == i < targetEntries

\* line 54 is false: lines 66-69
LoopExit ==
  /\ pc = "loop"
  /\ ~ LoopCond
  /\ pc' = "done"
  /\ UNCHANGED <<limiter, pages, configCol, submissionsCol, thrown, latestId,
                 firstPost, lastPost, ranges, resolverVars, samplerVars>>

\* line 55: csprng(ranges.firstPost, ranges.lastPost) resolves to id
Draw(id) ==
  /\ pc = "loop"
  /\ LoopCond
  /\ id \in ranges.firstPost .. ranges.lastPost
  /\ randomId' = id
  /\ pc' = "check"
  /\ UNCHANGED <<limiter, pages, configCol, submissionsCol, thrown, latestId,
                 firstPost, lastPost, ranges, resolverVars, targetEntries,
                 currentEntries, i, postMeta, failures, inserts>>

\* line 56 is false
existsById(col, id) == countById(col, id) # 0

\* line 56: a document with this id is stored, the iteration ends
CheckStored ==
  /\ pc = "check"
  /\ existsById(submissionsCol, randomId)
  /\ randomId' = 0
  /\ pc' = "loop"
  /\ UNCHANGED <<limiter, pages, configCol, submissionsCol, thrown, latestId,
                 firstPost, lastPost, ranges, resolverVars, targetEntries,
                 currentEntries, i, postMeta, failures, inserts>>

\* a loop that fetches without looking at the result of the query
CheckSkipped ==
  /\ pc = "check"
  /\ pc' = "fetch"
  /\ UNCHANGED <<limiter, pages, configCol, submissionsCol, thrown, latestId,
                 firstPost, lastPost, ranges, resolverVars, samplerVars>>

\* line 56: no document with this id, fetchPostMeta is called
CheckNew ==
  /\ pc = "check"
  /\ ~ existsById(submissionsCol, randomId)
  /\ pc' = "fetch"
  /\ UNCHANGED <<limiter, pages, configCol, submissionsCol, thrown, latestId,
                 firstPost, lastPost, ranges, resolverVars, samplerVars>>

\* a fetchPostMeta without the try/catch: the failed request rejects main
FetchFailsThrows ==
  /\ pc = "fetch"
  /\ failures < MaxFailures
  /\ failures' = failures + 1
  /\ Throw("Request failed")
  /\ UNCHANGED <<limiter, pages, configCol, submissionsCol, latestId, firstPost,
                 lastPost, ranges, resolverVars, targetEntries,
                 currentEntries, i, randomId, postMeta, inserts>>

\* furaffinity.js:126-132: the request fails, null is returned after 10 s
FetchFails ==
  /\ pc = "fetch"
  /\ failures < MaxFailures
  /\ failures' = failures + 1
  /\ randomId' = 0
  /\ pc' = "loop"
  /\ UNCHANGED <<limiter, pages, configCol, submissionsCol, thrown, latestId,
                 firstPost, lastPost, ranges, resolverVars, targetEntries,
                 currentEntries, i, postMeta, inserts>>

\* furaffinity.js:134: nothing at this id, null is returned
FetchGap ==
  /\ pc = "fetch"
  /\ ~ PageAt(randomId).submission
  /\ randomId' = 0
  /\ pc' = "loop"
  /\ UNCHANGED <<limiter, pages, configCol, submissionsCol, thrown, latestId,
                 firstPost, lastPost, ranges, resolverVars, targetEntries,
                 currentEntries, i, postMeta, failures, inserts>>

\* furaffinity.js:136-183: the fields of the document, read off the page
fetchPostMeta(id, p) == [id |-> id, date |-> convertDateStr(p.rawDate)]

\* furaffinity.js:134-183: a submission page, its document is returned
FetchMeta ==
  /\ pc = "fetch"
  /\ PageAt(randomId).submission
  /\ postMeta' = fetchPostMeta(randomId, PageAt(randomId))
  /\ pc' = "insert"
  /\ UNCHANGED <<limiter, pages, configCol, submissionsCol, thrown, latestId,
                 firstPost, lastPost, ranges, resolverVars, targetEntries,
                 currentEntries, i, randomId, failures, inserts>>

\* an iteration that forgets i++
InsertUncounted ==
  /\ pc = "insert"
  /\ submissionsCol' = submissionsCol (+) SetToBag({postMeta})
  /\ inserts' = inserts + 1
  /\ randomId' = 0
  /\ postMeta' = NoMeta
  /\ pc' = "loop"
  /\ UNCHANGED <<limiter, pages, configCol, thrown, latestId, firstPost, lastPost,
                 ranges, resolverVars, targetEntries, currentEntries, i,
                 failures>>

\* collector.js:59-61
Insert ==
  /\ pc = "insert"
  /\ submissionsCol' = submissionsCol (+) SetToBag({postMeta})
  /\ i' = i + 1
  /\ inserts' = inserts + 1
  /\ randomId' = 0
  /\ postMeta' = NoMeta
  /\ pc' = "loop"
  /\ UNCHANGED <<limiter, pages, configCol, thrown, latestId, firstPost, lastPost,
                 ranges, resolverVars, targetEntries, currentEntries,
                 failures>>

(***************************************************************************)
(* The limiter (furaffinity.js:10): new Bottleneck({minTime: 100,          *)
(* maxConcurrent: 1}).  limiter.schedule(job) queues the job; the limiter  *)
(* starts the job at the head of the queue when fewer than maxConcurrent   *)
(* jobs are running and minTime ms have passed since it started the last   *)
(* one; a job is over when its request resolves or rejects.                *)
(***************************************************************************)
minTime == 100
maxConcurrent == 1

\* the limiter of a process that has scheduled nothing yet
IdleLimiter == [queue |-> <<>>, running |-> {}, sinceLaunch |-> minTime]

\* callers of findLatestPost, findPostByDate and fetchPostMeta, and the
\* paths they request: 0 is '/', id is '/view/<id>'
Callers == 1..NumCallers
Paths == 0..2
Jobs == [caller : Callers, path : Paths]

Waiting(c) == \E k \in 1..Len(limiter.queue) : limiter.queue[k].caller = c
Running(c) == \E j \in limiter.running : j.caller = c

mainVars ==
  <<pages, configCol, submissionsCol, pc, thrown, latestId, targetDate,
    first, min, max, mid, notFounds, walk_i, ret, firstPost, lastPost,
    ranges, targetEntries, currentEntries, i, randomId, postMeta, failures,
    inserts>>

\* a request that is sent at once, around the limiter
RequestUngated(c, path) ==
  /\ ~ Waiting(c)
  /\ ~ Running(c)
  /\ limiter' = [limiter EXCEPT
                   !.running = @ \cup {[caller |-> c, path |-> path]}]
  /\ UNCHANGED mainVars

\* lines 27, 50, 90, 105 and 127: limiter.schedule(() => axiosInstance.get(path))
Schedule(c, path) ==
  /\ ~ Waiting(c)
  /\ ~ Running(c)
  /\ limiter' = [limiter EXCEPT
                   !.queue = Append(@, [caller |-> c, path |-> path])]
  /\ UNCHANGED mainVars

\* the limiter starts the job at the head of the queue: the request is sent
Launch ==
  /\ limiter.queue # <<>>
  /\ Cardinality(limiter.running) < maxConcurrent
  /\ limiter.sinceLaunch >= minTime
  /\ limiter' = [queue |-> Tail(limiter.queue),
                 running |-> limiter.running \cup {Head(limiter.queue)},
                 sinceLaunch |-> 0]
  /\ UNCHANGED mainVars

\* the request of caller c resolves or rejects: its await goes on
Complete(c) ==
  /\ Running(c)
  /\ limiter' = [limiter EXCEPT
                   !.running = { j \in @ : j.caller # c }]
  /\ UNCHANGED mainVars

\* 50 ms pass
Tick ==
  /\ limiter.sinceLaunch < minTime
  /\ limiter' = [limiter EXCEPT
                   !.sinceLaunch =
                     IF @ + 50 > minTime THEN minTime ELSE @ + 50]
  /\ UNCHANGED mainVars

(***************************************************************************)
(* Initial states.                                                         *)
(***************************************************************************)
InitLocals ==
  /\ pc = "start"
  /\ thrown = "none"
  /\ latestId = 0
  /\ targetDate = 0
  /\ first = FALSE
  /\ min = 0
  /\ max = 0
  /\ mid = 0
  /\ notFounds = FALSE
  /\ walk_i = 0
  /\ ret = 0
  /\ firstPost = 0
  /\ lastPost = 0
  /\ ranges = NoRanges
  /\ targetEntries = 0
  /\ currentEntries = 0
  /\ i = 0
  /\ randomId = 0
  /\ postMeta = NoMeta
  /\ failures = 0
  /\ inserts = 0
  /\ limiter = IdleLimiter

\* the first run of the collector: an empty database
InitResolver ==
  /\ pages \in ResolverWorlds
  /\ configCol = {}
  /\ submissionsCol = EmptyBag
  /\ InitLocals

(***************************************************************************)
(* A later run: the range record is stored, and so are some documents.     *)
(* The range starts at SampleFirst and is SampleWidths wide; the pages at  *)
(* SampleIds are any of SamplePages (up to the order of the identifiers,   *)
(* which the sampler does not look at), every other page is a gap; the     *)
(* stored documents are documents of some of the submission pages.         *)
(***************************************************************************)
SampleFirst == 2
SampleWidths == {MaxWidth \div 2, MaxWidth}
SampleIds(last) == <<SampleFirst, SampleFirst + 1, last>>
SamplePages ==
  << GapPage,
     [submission |-> TRUE, rawDate |-> <<year, 12, 0, "PM">>],
     [submission |-> TRUE, rawDate |-> <<year + 1, 12, 0, "AM">>],
     NoDatePage,
     BadDatePage >>

SampleWorld(last, kinds) ==
  [ id \in 1..last |->
      IF \E k \in 1..3 : SampleIds(last)[k] = id
        THEN SamplePages[kinds[CHOOSE k \in 1..3 : SampleIds(last)[k] = id]]
        ELSE GapPage ]

SampleKinds ==
  { kinds \in [1..3 -> 1..Len(SamplePages)] :
      kinds[1] <= kinds[2] /\ kinds[2] <= kinds[3] }

InitSampler ==
  /\ \E w \in SampleWidths, kinds \in SampleKinds :
       /\ pages = SampleWorld(SampleFirst + w, kinds)
       /\ configCol = { [year |-> year, firstPost |-> SampleFirst,
                         lastPost |-> SampleFirst + w] }
       /\ \E stored \in SUBSET { id \in DOMAIN pages : pages[id].submission } :
            submissionsCol =
              SetToBag({ fetchPostMeta(id, pages[id]) : id \in stored })
  /\ InitLocals

Init == InitResolver \/ InitSampler

(***************************************************************************)
(* Next-state relations and specifications.                                *)
(***************************************************************************)
Lookup ==
  \/ MainNotFound
  \/ FindLatestPost
  \/ FindLatestPostFails
  \/ SearchExit
  \/ SearchRequestFails
  \/ SearchGap
  \/ SearchFormat
  \/ SearchCompare
  \/ WalkRequestFails
  \/ WalkGap
  \/ WalkFormat
  \/ WalkCompare
  \/ WalkFallback
  \/ FirstPostFound
  \/ LastPostFound
  \/ InsertRanges

Sampling ==
  \/ \E id \in ranges.firstPost .. ranges.lastPost : Draw(id)
  \/ CheckStored
  \/ CheckNew
  \/ FetchFails
  \/ FetchGap
  \/ FetchMeta
  \/ Insert

Next == MainFound \/ Lookup \/ Count \/ LoopExit \/ Sampling

Spec == Init /\ [][Next]_vars

\* the first run, on every site of ResolverWorlds
NextResolver == Lookup \/ Count \/ LoopExit
SpecResolver == InitResolver /\ [][NextResolver]_vars

\* a later run, on every stored range and store of InitSampler
NextSampler == MainFound \/ Count \/ LoopExit \/ Sampling
SpecSampler == InitSampler /\ [][NextSampler]_vars

\* The draws are fair, as csprng is: every identifier of the range is drawn
\* again and again; and the event loop runs every continuation that is ready.
SampleIdSpace ==
  {SampleFirst, SampleFirst + 1} \cup { SampleFirst + w : w \in SampleWidths }
SamplerProgress ==
  \/ MainFound
  \/ Count
  \/ LoopExit
  \/ CheckStored
  \/ CheckNew
  \/ FetchGap
  \/ FetchMeta
  \/ Insert
SpecSamplerFair ==
  /\ InitSampler
  /\ [][NextSampler]_vars
  /\ WF_vars(SamplerProgress)
  /\ \A id \in SampleIdSpace : SF_vars(Draw(id))

TypeOK ==
  /\ pc \in {"start", "findLatestPost", "search", "walk", "returned",
             "insertRanges", "count", "loop", "check", "fetch", "insert",
             "done", "aborted"}
  /\ min \in 0..Len(pages) /\ max \in 0..Len(pages) /\ mid \in 0..Len(pages)
  /\ failures \in 0..MaxFailures

(***************************************************************************)
(* Properties of the range lookup, checked under SpecResolver.             *)
(***************************************************************************)
\* some submission of the site is dated exactly targetDate
ExactMatchExists ==
  \E id \in Posts(pages) : DateAt(pages, id) = targetDate

\* findPostByDate returned from the walk (line 101 or 116), not from line 121
ReturnedFromWalk == pc = "returned" /\ InWalk

\* C1: on a site whose dates are non-decreasing in the identifier, when no
\* request fails and some submission is dated exactly the target,
\* findPostByDate returns the identifier of a submission dated exactly the
\* target, and returns it from the walk, never from the fallback of line 121.
C1_ExactMatchIsReturned ==
  (pc = "returned" /\ ExactMatchExists)
    => /\ ret \in Posts(pages)
       /\ DateAt(pages, ret) = targetDate
       /\ ReturnedFromWalk

\* C1 happens: a search over a site with gaps returned a match that the walk,
\* not the binary search, has found
C1_Witness ==
  /\ pc = "returned"
  /\ ExactMatchExists
  /\ ret # mid
  /\ \E id \in 1..Len(pages) : ~ pages[id].submission
  /\ DateAt(pages, ret) = targetDate

\* C5: when a request fails or a page cannot be read during the range lookup
\* (front page, binary search or walk, of the first or of the last boundary),
\* main is rejected and no range record is written: the config collection
\* stays as it was, empty.
C5_NoRangeAfterFailure ==
  (pc = "aborted") => (configCol = {} /\ ranges = NoRanges)

\* C5 happens: the first boundary was resolved and a request of the second
\* lookup failed
C5_Witness ==
  /\ pc = "aborted"
  /\ thrown = "Request failed"
  /\ firstPost # 0
  /\ ~ first

\* C8: every range record the collector writes has firstPost <= lastPost.
C8_FirstNotAfterLast ==
  \A r \in configCol : r.firstPost <= r.lastPost

\* the bracket of the binary search holds no submission dated targetDate
NoMatchInBracket ==
  \A id \in min..max : ~ (IsPost(PageAt(id)) /\ DateAt(pages, id) = targetDate)

\* C9: when no identifier of the final bracket of the binary search is dated
\* exactly the target, findPostByDate returns a value of [min, max].
C9_FallbackInBracket ==
  (pc = "returned" /\ NoMatchInBracket) => (min <= ret /\ ret <= max)

\* C9 happens: the fallback returned from a bracket whose interior is all gaps
C9_Witness ==
  /\ pc = "returned"
  /\ NoMatchInBracket
  /\ max - min > 1
  /\ \A id \in (min + 1)..(max - 1) : ~ PageAt(id).submission

(***************************************************************************)
(* Properties of the sampling loop.                                        *)
(***************************************************************************)
Maximum(a, b) == IF a >= b THEN a ELSE b

\* C2, as claimed: when the sampling loop finishes, the number of inserts of
\* the run is exactly floor((lastPost - firstPost) * 0.1) - currentEntries.
C2_InsertsAreTargetMinusCount ==
  (pc = "done") => (inserts = targetEntries - currentEntries)

\* C2, amended: when the sampling loop finishes, the number of inserts of the
\* run is floor((lastPost - firstPost) * 0.1) - currentEntries when that is
\* positive, and zero otherwise.
C2_InsertsAreShortfall ==
  (pc = "done") => (inserts = Maximum(0, targetEntries - currentEntries))

\* C2 happens: a run that found one entry stored has finished after it
\* inserted the missing one
C2_Witness ==
  /\ pc = "done"
  /\ currentEntries = 1
  /\ targetEntries = 2
  /\ inserts = 1

\* C4, as claimed: with fair draws the sampling loop ends on every range,
\* every set of gaps and every store.
C4_LoopEnds == <>(pc = "done")

\* identifiers of the range with a readable submission that is not stored
Unstored ==
  { id \in ranges.firstPost .. ranges.lastPost :
      IsPost(PageAt(id)) /\ ~ existsById(submissionsCol, id) }

\* C4, amended: with fair draws the sampling loop ends whenever the range
\* holds at least targetEntries - currentEntries readable submissions that
\* are not stored.
C4_LoopEndsIfEnoughPosts ==
  (pc = "loop" /\ Cardinality(Unstored) >= targetEntries - i) ~> (pc = "done")

\* C4 happens: a run that had to insert two entries, and drew gaps and stored
\* identifiers on its way, has finished
C4_Witness ==
  /\ pc = "done"
  /\ inserts = 2
  /\ currentEntries = 0
  /\ BagCardinality(submissionsCol) = 3

\* no identifier is stored twice
NoDuplicateId ==
  \A d \in BagToSet(submissionsCol) :
    countById(submissionsCol, d.id) = 1

\* C3: in every state of the sampling loop, the identifier that is fetched or
\* inserted is one the store holds no document of, it lies in
\* [firstPost, lastPost], and the store holds no two documents of one
\* identifier.
C3_NoStoredIdIsFetched ==
  /\ (pc \in {"fetch", "insert"}) => ~ existsById(submissionsCol, randomId)
  /\ (pc \in {"check", "fetch", "insert"})
       => randomId \in ranges.firstPost .. ranges.lastPost
  /\ (pc = "insert") => postMeta.id = randomId
  /\ NoDuplicateId

\* C3 happens: with one document inserted by this run and one stored before,
\* a third identifier is about to be inserted
C3_Witness ==
  /\ pc = "insert"
  /\ inserts = 1
  /\ BagCardinality(submissionsCol) = 2

\* C6: during sampling, a submission page without a readable date rejects
\* main, and no document of that identifier is inserted or counted.
C6_UnreadablePageIsFatal ==
  (pc = "insert") => IsPost(PageAt(randomId))

\* C7: a failed request of fetchPostMeta never rejects main; the iteration it
\* ends leaves the counter and the store as they were and is followed by a
\* new draw; and a run that finishes after failed requests has met its target.
C7_FailedRequestIsSkipped ==
  /\ [](failures > 0 => pc # "aborted")
  /\ [][failures' # failures
          => (i' = i /\ submissionsCol' = submissionsCol /\ pc' = "loop"
              /\ LoopCond')]_vars
  /\ []((pc = "done" /\ failures > 0) => i >= targetEntries)

\* C7 happens: after three failed requests the run has inserted two entries
\* and finished
C7_Witness ==
  /\ pc = "done"
  /\ failures = 3
  /\ inserts = 2
  /\ i = targetEntries

\* C10: a run that finds the number of stored entries of the period at or
\* above the target draws nothing, fetches nothing and inserts nothing, and
\* leaves the store as it was.
C10_MetTargetDoesNothing ==
  /\ []((pc \in {"loop", "check", "fetch", "insert", "done"}
         /\ currentEntries >= targetEntries)
          => (pc \in {"loop", "done"} /\ inserts = 0 /\ failures = 0))
  /\ [][(pc \in {"loop", "check", "fetch", "insert"}
          /\ currentEntries >= targetEntries)
          => submissionsCol' = submissionsCol]_vars

\* C10 happens: a run over a range with a target of 2 found 2 entries stored
\* and has finished
C10_Witness ==
  /\ pc = "done"
  /\ targetEntries = 2
  /\ currentEntries >= 2
  /\ BagCardinality(submissionsCol) = currentEntries

(***************************************************************************)
(* Runs after runs: the process ends (it finished, main was rejected or    *)
(* it was killed at any await) and the collector is started again on the   *)
(* same database.                                                          *)
(***************************************************************************)
\* a record of the collected year is in the config collection
RangeStored == \E r \in configCol : r.year = year

\* main() of a new process: collector.js:12-14 and 22-37
NextRun ==
  /\ pc # "start"
  /\ pc' = "start"
  /\ thrown' = "none"
  /\ latestId' = 0
  /\ targetDate' = 0
  /\ first' = FALSE
  /\ min' = 0
  /\ max' = 0
  /\ mid' = 0
  /\ notFounds' = FALSE
  /\ walk_i' = 0
  /\ ret' = 0
  /\ firstPost' = 0
  /\ lastPost' = 0
  /\ ranges' = NoRanges
  /\ targetEntries' = 0
  /\ currentEntries' = 0
  /\ i' = 0
  /\ randomId' = 0
  /\ postMeta' = NoMeta
  /\ failures' = 0
  /\ inserts' = 0
  /\ UNCHANGED <<limiter, pages, configCol, submissionsCol>>

\* any number of runs, from the first one on an empty database
NextRuns == MainFound \/ Lookup \/ Count \/ LoopExit \/ NextRun
SpecRuns == InitResolver /\ [][NextRuns]_vars

\* the position of main is inside lookupRanges or at the insert of its result
InLookup ==
  pc \in {"findLatestPost", "search", "walk", "returned", "insertRanges"}

\* C11: once a range record of the period is stored, no later step of any
\* run is a step of the range lookup (front page, search or walk request)
\* and none writes the config collection; the collection never holds more
\* than one record.
C11_StoredRangeIsReused ==
  /\ [][RangeStored => (configCol' = configCol /\ ~ InLookup')]_vars
  /\ [](Cardinality(configCol) <= 1)

\* C11 happens: a later run has found the record of an earlier run and has
\* finished without a lookup of its own
C11_Witness ==
  /\ pc = "done"
  /\ RangeStored
  /\ latestId = 0
  /\ ranges \in configCol

(***************************************************************************)
(* The limiter under NumCallers callers at once.                           *)
(***************************************************************************)
NextGate ==
  \/ \E c \in Callers, path \in Paths : Schedule(c, path)
  \/ Launch
  \/ \E c \in Callers : Complete(c)
  \/ Tick
\* a site of two identifiers, a submission and a gap, and no run of main
InitGate ==
  /\ pages = << [submission |-> TRUE, rawDate |-> <<year, 12, 0, "AM">>],
               GapPage >>
  /\ configCol = {}
  /\ submissionsCol = EmptyBag
  /\ InitLocals
SpecGate == InitGate /\ [][NextGate]_vars

\* C12: every request is sent by the limiter, and however the callers
\* interleave at most one request is in flight: a request is sent only when
\* none is in flight.
C12_OneRequestInFlight ==
  /\ [](Cardinality(limiter.running) <= 1)
  /\ [][limiter'.running # limiter.running
          => \/ limiter'.running \subseteq limiter.running
             \/ (limiter.running = {} /\ limiter.queue # <<>>
                 /\ limiter'.running = {Head(limiter.queue)})]_vars

\* C12 happens: one request is in flight while the requests of all other
\* callers wait in the queue
C12_Witness ==
  /\ Cardinality(limiter.running) = 1
  /\ Len(limiter.queue) = NumCallers - 1
  /\ limiter.sinceLaunch = minTime

(***************************************************************************)
(* Sampling runs that are killed and started again.                        *)
(***************************************************************************)
\* the target of a stored range record (collector.js:44)
TargetOf(r) == (r.lastPost - r.firstPost) \div 10

\* a later run on a store that holds at most the target of the period
InitSamplerBelowTarget ==
  /\ InitSampler
  /\ \A r \in configCol : countInPeriod(submissionsCol) <= TargetOf(r)

NextSamplerRuns == NextSampler \/ NextRun
SpecSamplerRuns == InitSamplerBelowTarget /\ [][NextSamplerRuns]_vars

\* main is past line 50: targetEntries and currentEntries are set
TargetKnown == pc \in {"loop", "check", "fetch", "insert", "done"}

\* C13: over runs that are killed at any point of the sampling loop and
\* started again, on a store that held at most the target, the number of
\* stored entries of the period never exceeds the target, and it equals the
\* target when a run completes.
C13_ResumedRunsMeetTarget ==
  TargetKnown =>
    /\ countInPeriod(submissionsCol) <= targetEntries
    /\ (pc = "done") => countInPeriod(submissionsCol) = targetEntries

\* C17: at every iteration boundary of the sampling loop the counter i is the
\* number of stored entries whose date falls within the period.
C17_CounterIsCountInPeriod ==
  (pc = "loop") => (i = countInPeriod(submissionsCol))

(***************************************************************************)
(* Properties of the identifiers findPostByDate returns.                   *)
(***************************************************************************)
\* C14: every identifier findPostByDate returns, and so both boundaries of
\* every stored range record, is the identifier of a page that exists (not a
\* gap), the fallback of line 121 included.
C14_ReturnedIdIsNotAGap ==
  /\ (pc = "returned") => PageAt(ret).submission
  /\ \A r \in configCol :
       PageAt(r.firstPost).submission /\ PageAt(r.lastPost).submission

\* the submissions of the whole site dated exactly the target
Matches == { id \in Posts(pages) : DateAt(pages, id) = targetDate }
Smallest(S) == CHOOSE x \in S : \A y \in S : x <= y
Largest(S) == CHOOSE x \in S : \A y \in S : x >= y

\* C16: on a site whose dates are non-decreasing in the identifier, when
\* submissions are dated exactly the target, findPostByDate(target, true)
\* returns the smallest identifier of the whole site dated the target and
\* findPostByDate(target, false) the largest, whichever the search has hit.
C16_BoundaryOfTheMatches ==
  (pc = "returned" /\ Matches # {})
    => ret = (IF first THEN Smallest(Matches) ELSE Largest(Matches))

\* C16 happens: several submissions are dated the target, the binary search
\* hit one of them and the walk returned another one
C16_Witness ==
  /\ pc = "returned"
  /\ Cardinality(Matches) >= 2
  /\ mid \in Matches
  /\ ret # mid
  /\ ret = (IF first THEN Smallest(Matches) ELSE Largest(Matches))

\* line 50 is reached: /view/<mid> is requested by the binary search
Probing == pc = "search" /\ ~ AtBracketEnd

\* C18: a probe of the binary search that finds a gap leaves min and max as
\* they are and moves mid alone, to max - 1 at the first gap of a run and to
\* mid - 1 at each following one; min and max change during a search only at
\* a probe that finds a submission; and every probed identifier is strictly
\* between min and max.
C18_GapProbeMovesMidOnly ==
  /\ [][(Probing /\ ~ PageAt(mid).submission /\ pc' = "search")
          => /\ min' = min
             /\ max' = max
             /\ mid' = (IF notFounds THEN mid - 1 ELSE max - 1)]_vars
  /\ [][(pc = "search" /\ pc' = "search" /\ (min' # min \/ max' # max))
          => (Probing /\ IsPost(PageAt(mid)))]_vars
  /\ [](Probing => (min < mid /\ mid < max))

\* C18 happens: a second gap in a row was probed, strictly inside a bracket
\* that an earlier probe had narrowed
C18_Witness ==
  /\ Probing
  /\ notFounds
  /\ ~ PageAt(mid).submission
  /\ mid < max - 1
  /\ (min > 1 \/ max < latestId)

(***************************************************************************)
(* findPostByDate on sites whose dates are in any order, when every        *)
(* request is answered and every submission page shows a readable date.    *)
(***************************************************************************)
AnyOrderDates == { <<year - 1, 11, 59, "PM">>, <<year, 12, 0, "AM">>,
                   <<year, 11, 59, "PM">>, <<year + 1, 12, 0, "AM">> }
AnyOrderPages ==
  {GapPage} \cup { [submission |-> TRUE, rawDate |-> r] : r \in AnyOrderDates }
AnyOrderWorlds == UNION { [1..n -> AnyOrderPages] : n \in 1..MaxAnyId }

InitAnyOrder ==
  /\ pages \in AnyOrderWorlds
  /\ configCol = {}
  /\ submissionsCol = EmptyBag
  /\ InitLocals

NextAnyOrder ==
  \/ MainNotFound
  \/ FindLatestPost
  \/ SearchExit
  \/ SearchGap
  \/ SearchCompare
  \/ WalkGap
  \/ WalkCompare
  \/ WalkFallback
  \/ FirstPostFound
  \/ LastPostFound
  \/ InsertRanges

\* every awaited request is answered, so the continuation is run
SpecAnyOrder ==
  InitAnyOrder /\ [][NextAnyOrder]_vars /\ WF_vars(NextAnyOrder)

====
